---- MODULE Spec2Model ----
(***************************************************************************)
(* Model of the SVGBench remote rollout server (vercel_svg_server_ts).     *)
(*                                                                         *)
(* Two versions of the serverless handler are in the repository:           *)
(*   variant "init"   : api/init.ts, which logs with logToFireworks        *)
(*   variant "logger" : the handler that logs through the winston child    *)
(*                      logger and FireworksTransport, wrapped by          *)
(*                      withFireworksLogging                               *)
(* One request is followed from its arrival to the response and to the end *)
(* of the trace-log POSTs it caused.                                       *)
(*                                                                         *)
(* Conventions.  An optional value (undefined / null / absent) is the      *)
(* empty sequence None, a present value x is Some(x) = <<x>>.  API keys    *)
(* are sequences of characters so that trim() is computed.  A template     *)
(* string such as `Rollout ${id} failed: ${msg}` is the tuple of its       *)
(* pieces.  A message is a function from its own keys to string tokens,    *)
(* the token NullV standing for a JSON null.                               *)
(***************************************************************************)
EXTENDS Naturals, Sequences, FiniteSets, TLC

VARIABLES
    variant,    \* which handler file serves the request
    req,        \* the incoming request: [method, body]
    env,        \* process.env: [FIREWORKS_API_KEY, EP_ROLLOUT_ID]
    pc,         \* position of the handler
    headers,    \* response headers set so far (res.setHeader)
    rolloutId,  \* handler local: let rolloutId
    apiKey,     \* handler local: let apiKey
    logger,     \* handler local (variant "logger"): TRUE once createRolloutLogger ran
    caught,     \* the error bound by catch (error), None outside the catch block
    calls,      \* chat-completion calls made to the provider, in order
    responses,  \* HTTP responses sent by the handler, in order
    logs,       \* log records handed to logToFireworks / the winston logger
    fnArg,      \* argument of the pure function under test (function specifications)
    fnRes       \* its result

vars == <<variant, req, env, pc, headers, rolloutId, apiKey, logger, caught,
          calls, responses, logs, fnArg, fnRes>>

----------------------------------------------------------------------------
(* Optional values *)

None == <<>>

Some(x) == <<x>>

IsSome(o) == o # <<>>

Get(o) == o[1]

RECURSIVE SeqsUpTo(_, _)
\* all sequences over S of length at most n
SeqsUpTo(S, n) ==
    IF n = 0 THEN {<<>>}
    ELSE LET shorter == SeqsUpTo(S, n - 1)
         IN  shorter \cup {Append(s, x) : s \in {t \in shorter : Len(t) = n - 1}, x \in S}

----------------------------------------------------------------------------
(* Bounds of the model *)

\* longest messages array in a request
MaxMsgs == 2

\* longest API key string given to resolveApiKey
MaxKeyLen == 3

----------------------------------------------------------------------------
(* StatusCode and Status *)

OK == 0
CANCELLED == 1
UNKNOWN == 2
INVALID_ARGUMENT == 3
DEADLINE_EXCEEDED == 4
NOT_FOUND == 5
ALREADY_EXISTS == 6
PERMISSION_DENIED == 7
RESOURCE_EXHAUSTED == 8
FAILED_PRECONDITION == 9
ABORTED == 10
OUT_OF_RANGE == 11
UNIMPLEMENTED == 12
INTERNAL == 13
UNAVAILABLE == 14
DATA_LOSS == 15
UNAUTHENTICATED == 16
FINISHED == 100
RUNNING == 101
SCORE_INVALID == 102

StatusCode ==
    {OK, CANCELLED, UNKNOWN, INVALID_ARGUMENT, DEADLINE_EXCEEDED, NOT_FOUND,
     ALREADY_EXISTS, PERMISSION_DENIED, RESOURCE_EXHAUSTED, FAILED_PRECONDITION,
     ABORTED, OUT_OF_RANGE, UNIMPLEMENTED, INTERNAL, UNAVAILABLE, DATA_LOSS,
     UNAUTHENTICATED, FINISHED, RUNNING, SCORE_INVALID}

\* new Status(code, message, details = [])
Status(code, message) == [code |-> code, message |-> message, details |-> <<>>]

\* new Status(code, message, details) with the default of the third
\* parameter: details is None when the argument is undefined
StatusWithDetails(code, message, details) ==
    [code |-> code, message |-> message,
     details |-> IF IsSome(details) THEN Get(details) ELSE <<>>]

\* Status._buildDetailsWithExtraInfo(extraInfo)
buildDetailsWithExtraInfo(extraInfo) ==
    IF ~IsSome(extraInfo) THEN <<>>
    ELSE << [type |-> "type.googleapis.com/google.rpc.ErrorInfo", reason |-> "EXTRA_INFO",
             domain |-> "eval-protocol.com", metadata |-> Get(extraInfo)] >>

\* status.toJSON(): a plain object of the three fields
toJSON(status) ==
    [code |-> status.code, message |-> status.message, details |-> status.details]

\* mutant: the details left to the constructor's default
fromJSON_NoDetails(json) == StatusWithDetails(json.code, json.message, None)

\* Status.fromJSON(json)
fromJSON(json) ==
    StatusWithDetails(json.code, json.message,
                      IF "details" \in DOMAIN json THEN Some(json.details) ELSE None)

rolloutFinished == Status(FINISHED, "Rollout finished")

rolloutPermissionDeniedError(errorMessage) == Status(PERMISSION_DENIED, errorMessage)

rolloutNotFoundError(errorMessage) == Status(NOT_FOUND, errorMessage)

rolloutResourceExhaustedError(errorMessage) == Status(RESOURCE_EXHAUSTED, errorMessage)

rolloutInvalidArgumentError(errorMessage) == Status(INVALID_ARGUMENT, errorMessage)

rolloutInternalError(errorMessage) == Status(INTERNAL, errorMessage)

rolloutDeadlineExceededError(errorMessage) == Status(DEADLINE_EXCEEDED, errorMessage)

rolloutAlreadyExistsError(errorMessage) == Status(ALREADY_EXISTS, errorMessage)

rolloutUnavailableError(errorMessage) == Status(UNAVAILABLE, errorMessage)

----------------------------------------------------------------------------
(* Thrown values *)

\* the value of a missing property, and of the JSON null
UndefinedV == "<undefined>"

NullV == "<null>"

\* JavaScript truthiness of a string-or-missing value
Truthy(v) == v \notin {"", UndefinedV, NullV}

OpenAIErrorTypes ==
    {"OpenAI.AuthenticationError", "OpenAI.PermissionDeniedError",
     "OpenAI.NotFoundError", "OpenAI.RateLimitError", "OpenAI.BadRequestError",
     "OpenAI.InternalServerError", "OpenAI.UnprocessableEntityError",
     "OpenAI.APIConnectionTimeoutError", "OpenAI.ConflictError",
     "OpenAI.APIConnectionError"}

\* classes of thrown objects: the SDK's errors and plain Error (TypeError,
\* Node system errors, the body parser's error)
ObjectTypes == OpenAIErrorTypes \cup {"Error"}

ErrorCodes == {UndefinedV, "ECONNRESET", "ENOTFOUND", "ETIMEDOUT", "ECONNREFUSED", "E_OTHER"}

\* messages of the SDK's errors, which are never empty
ErrorMessages == {"boom", "429 rate limited"}

\* a thrown object of class type with properties code and message
ErrorObject(type, code, message) ==
    [type |-> type, code |-> code, message |-> message, text |-> ""]

\* a thrown string primitive: it has no properties
ThrownString(text) ==
    [type |-> "string", code |-> UndefinedV, message |-> UndefinedV, text |-> text]

\* throw null / throw undefined / a promise rejected without a reason
ThrownNull == [type |-> "null", code |-> UndefinedV, message |-> UndefinedV, text |-> ""]

ThrownUndefined ==
    [type |-> "undefined", code |-> UndefinedV, message |-> UndefinedV, text |-> ""]

IsNullish(error) == error.type \in {"null", "undefined"}

\* every value of the parameter type `any` the model draws
ErrorValues ==
    {ErrorObject(t, c, m) : t \in ObjectTypes, c \in ErrorCodes, m \in ErrorMessages}
        \cup {ErrorObject("Error", c, "") : c \in ErrorCodes}
        \cup {ThrownString(""), ThrownString("oops"), ThrownNull, ThrownUndefined}

\* error instanceof cls; APIConnectionTimeoutError extends APIConnectionError
InstanceOf(error, cls) ==
    \/ error.type = cls
    \/ cls = "OpenAI.APIConnectionError" /\ error.type = "OpenAI.APIConnectionTimeoutError"

\* String(error): a string is itself, an Error object prints as its name when
\* its message is empty and as "name: message" otherwise
StringOf(error) ==
    CASE error.type = "string" -> error.text
      [] IsNullish(error) -> error.type
      [] error.message = "" -> "Error"
      [] OTHER -> <<"Error", ": ", error.message>>

\* a function returned value v / threw e
Returned(v) == [threw |-> FALSE, value |-> v]

Threw(e) == [threw |-> TRUE, value |-> e]

\* reading a property of null or undefined
NullDereference == ErrorObject("Error", UndefinedV, "Cannot read properties of null")

\* mutant: the network-code test placed before the class tests, and
\* RateLimitError classified as UNAVAILABLE
mapOpenAIErrorToStatus_Swapped(error) ==
    IF IsNullish(error) THEN Threw(NullDereference)
    ELSE LET errorMessage == IF Truthy(error.message) THEN error.message ELSE StringOf(error)
         IN  Returned(
               IF error.code \in {"ECONNRESET", "ENOTFOUND", "ETIMEDOUT"}
                    \/ InstanceOf(error, "OpenAI.RateLimitError")
                 THEN rolloutUnavailableError(errorMessage)
               ELSE rolloutInternalError(errorMessage))

\* mapOpenAIErrorToStatus(error: any): Status.  The first statement reads
\* error.message, which throws a TypeError when error is null or undefined.
mapOpenAIErrorToStatus(error) ==
    IF IsNullish(error) THEN Threw(NullDereference)
    ELSE LET errorMessage == IF Truthy(error.message) THEN error.message ELSE StringOf(error)
         IN  Returned(
               IF InstanceOf(error, "OpenAI.AuthenticationError")
                 THEN rolloutPermissionDeniedError(errorMessage)
               ELSE IF InstanceOf(error, "OpenAI.PermissionDeniedError")
                 THEN rolloutPermissionDeniedError(errorMessage)
               ELSE IF InstanceOf(error, "OpenAI.NotFoundError")
                 THEN rolloutNotFoundError(errorMessage)
               ELSE IF InstanceOf(error, "OpenAI.RateLimitError")
                 THEN rolloutResourceExhaustedError(errorMessage)
               ELSE IF InstanceOf(error, "OpenAI.BadRequestError")
                 THEN rolloutInvalidArgumentError(errorMessage)
               ELSE IF InstanceOf(error, "OpenAI.InternalServerError")
                 THEN rolloutInternalError(errorMessage)
               ELSE IF InstanceOf(error, "OpenAI.UnprocessableEntityError")
                 THEN rolloutInvalidArgumentError(errorMessage)
               ELSE IF InstanceOf(error, "OpenAI.APIConnectionTimeoutError")
                 THEN rolloutDeadlineExceededError(errorMessage)
               ELSE IF InstanceOf(error, "OpenAI.ConflictError")
                 THEN rolloutAlreadyExistsError(errorMessage)
               ELSE IF error.code \in {"ECONNRESET", "ENOTFOUND", "ETIMEDOUT"}
                 THEN rolloutUnavailableError(errorMessage)
               ELSE rolloutInternalError(errorMessage))

\* the subclasses of EvalProtocolError, named apart from the SDK's classes of
\* the same name
EvalProtocolErrorClasses ==
    {"EvalProtocol.CancelledError", "EvalProtocol.UnknownError",
     "EvalProtocol.InvalidArgumentError", "EvalProtocol.DeadlineExceededError",
     "EvalProtocol.NotFoundError", "EvalProtocol.AlreadyExistsError",
     "EvalProtocol.PermissionDeniedError", "EvalProtocol.ResourceExhaustedError",
     "EvalProtocol.FailedPreconditionError", "EvalProtocol.AbortedError",
     "EvalProtocol.OutOfRangeError", "EvalProtocol.UnimplementedError",
     "EvalProtocol.InternalError", "EvalProtocol.UnavailableError",
     "EvalProtocol.DataLossError", "EvalProtocol.UnauthenticatedError"}

\* the status code the constructor of class cls passes to super(message, code)
ClassStatusCode(cls) ==
    CASE cls = "EvalProtocol.CancelledError" -> CANCELLED
      [] cls = "EvalProtocol.UnknownError" -> UNKNOWN
      [] cls = "EvalProtocol.InvalidArgumentError" -> INVALID_ARGUMENT
      [] cls = "EvalProtocol.DeadlineExceededError" -> DEADLINE_EXCEEDED
      [] cls = "EvalProtocol.NotFoundError" -> NOT_FOUND
      [] cls = "EvalProtocol.AlreadyExistsError" -> ALREADY_EXISTS
      [] cls = "EvalProtocol.PermissionDeniedError" -> PERMISSION_DENIED
      [] cls = "EvalProtocol.ResourceExhaustedError" -> RESOURCE_EXHAUSTED
      [] cls = "EvalProtocol.FailedPreconditionError" -> FAILED_PRECONDITION
      [] cls = "EvalProtocol.AbortedError" -> ABORTED
      [] cls = "EvalProtocol.OutOfRangeError" -> OUT_OF_RANGE
      [] cls = "EvalProtocol.UnimplementedError" -> UNIMPLEMENTED
      [] cls = "EvalProtocol.InternalError" -> INTERNAL
      [] cls = "EvalProtocol.UnavailableError" -> UNAVAILABLE
      [] cls = "EvalProtocol.DataLossError" -> DATA_LOSS
      [] cls = "EvalProtocol.UnauthenticatedError" -> UNAUTHENTICATED

\* new cls(message, ...rest): the subclass constructors take (message = '')
\* only, so further arguments are ignored; EvalProtocolError sets message,
\* name = this.constructor.name and statusCode
newEvalProtocolError(cls, message) ==
    [type |-> cls, code |-> UndefinedV,
     message |-> IF IsSome(message) THEN Get(message) ELSE "",
     text |-> "", name |-> cls, statusCode |-> ClassStatusCode(cls)]

\* mutant: UNAVAILABLE registered with InternalError, RUNNING with UnknownError
STATUS_CODE_TO_EXCEPTION_Misregistered(code) ==
    CASE code = OK -> None
      [] code = CANCELLED -> Some("EvalProtocol.CancelledError")
      [] code = UNKNOWN -> Some("EvalProtocol.UnknownError")
      [] code = INVALID_ARGUMENT -> Some("EvalProtocol.InvalidArgumentError")
      [] code = DEADLINE_EXCEEDED -> Some("EvalProtocol.DeadlineExceededError")
      [] code = NOT_FOUND -> Some("EvalProtocol.NotFoundError")
      [] code = ALREADY_EXISTS -> Some("EvalProtocol.AlreadyExistsError")
      [] code = PERMISSION_DENIED -> Some("EvalProtocol.PermissionDeniedError")
      [] code = RESOURCE_EXHAUSTED -> Some("EvalProtocol.ResourceExhaustedError")
      [] code = FAILED_PRECONDITION -> Some("EvalProtocol.FailedPreconditionError")
      [] code = ABORTED -> Some("EvalProtocol.AbortedError")
      [] code = OUT_OF_RANGE -> Some("EvalProtocol.OutOfRangeError")
      [] code = UNIMPLEMENTED -> Some("EvalProtocol.UnimplementedError")
      [] code = INTERNAL -> Some("EvalProtocol.InternalError")
      [] code = UNAVAILABLE -> Some("EvalProtocol.InternalError")
      [] code = DATA_LOSS -> Some("EvalProtocol.DataLossError")
      [] code = UNAUTHENTICATED -> Some("EvalProtocol.UnauthenticatedError")
      [] code = FINISHED -> None
      [] code = RUNNING -> Some("EvalProtocol.UnknownError")
      [] code = SCORE_INVALID -> None
      [] OTHER -> None

\* STATUS_CODE_TO_EXCEPTION.get(code): the class registered for code, None for
\* a null entry and for a code that has no entry
STATUS_CODE_TO_EXCEPTION(code) ==
    CASE code = OK -> None
      [] code = CANCELLED -> Some("EvalProtocol.CancelledError")
      [] code = UNKNOWN -> Some("EvalProtocol.UnknownError")
      [] code = INVALID_ARGUMENT -> Some("EvalProtocol.InvalidArgumentError")
      [] code = DEADLINE_EXCEEDED -> Some("EvalProtocol.DeadlineExceededError")
      [] code = NOT_FOUND -> Some("EvalProtocol.NotFoundError")
      [] code = ALREADY_EXISTS -> Some("EvalProtocol.AlreadyExistsError")
      [] code = PERMISSION_DENIED -> Some("EvalProtocol.PermissionDeniedError")
      [] code = RESOURCE_EXHAUSTED -> Some("EvalProtocol.ResourceExhaustedError")
      [] code = FAILED_PRECONDITION -> Some("EvalProtocol.FailedPreconditionError")
      [] code = ABORTED -> Some("EvalProtocol.AbortedError")
      [] code = OUT_OF_RANGE -> Some("EvalProtocol.OutOfRangeError")
      [] code = UNIMPLEMENTED -> Some("EvalProtocol.UnimplementedError")
      [] code = INTERNAL -> Some("EvalProtocol.InternalError")
      [] code = UNAVAILABLE -> Some("EvalProtocol.UnavailableError")
      [] code = DATA_LOSS -> Some("EvalProtocol.DataLossError")
      [] code = UNAUTHENTICATED -> Some("EvalProtocol.UnauthenticatedError")
      [] code = FINISHED -> None
      [] code = RUNNING -> None
      [] code = SCORE_INVALID -> None
      [] OTHER -> None

\* exceptionForStatusCode(code, message = ''): message is None when the
\* argument is left out
exceptionForStatusCode(code, message) ==
    LET exceptionClass == STATUS_CODE_TO_EXCEPTION(code)
        text == IF IsSome(message) THEN Get(message) ELSE ""
    IN  IF ~IsSome(exceptionClass) THEN None
        ELSE Some(newEvalProtocolError(Get(exceptionClass), Some(text)))

\* mutant: the classification without the Eval Protocol errors and without
\* ECONNREFUSED
isRetryableError_OpenAIOnly(error) ==
    \/ InstanceOf(error, "OpenAI.RateLimitError")
    \/ InstanceOf(error, "OpenAI.InternalServerError")
    \/ InstanceOf(error, "OpenAI.APIConnectionTimeoutError")
    \/ InstanceOf(error, "OpenAI.APIConnectionError")
    \/ error.code \in {"ECONNRESET", "ENOTFOUND", "ETIMEDOUT"}

\* isRetryableError(error: any): boolean, for an error that is not null or
\* undefined: the SDK's classes, the network codes, the Eval Protocol classes
isRetryableError(error) ==
    \/ InstanceOf(error, "OpenAI.RateLimitError")
    \/ InstanceOf(error, "OpenAI.InternalServerError")
    \/ InstanceOf(error, "OpenAI.APIConnectionTimeoutError")
    \/ InstanceOf(error, "OpenAI.APIConnectionError")
    \/ error.code \in {"ECONNRESET", "ENOTFOUND", "ETIMEDOUT", "ECONNREFUSED"}
    \/ InstanceOf(error, "EvalProtocol.UnknownError")
    \/ InstanceOf(error, "EvalProtocol.DeadlineExceededError")
    \/ InstanceOf(error, "EvalProtocol.NotFoundError")
    \/ InstanceOf(error, "EvalProtocol.PermissionDeniedError")
    \/ InstanceOf(error, "EvalProtocol.UnavailableError")
    \/ InstanceOf(error, "EvalProtocol.UnauthenticatedError")
    \/ InstanceOf(error, "EvalProtocol.ResourceExhaustedError")

\* mutant: the HTTP status taken from the network code before the class, and
\* the branch of APIConnectionTimeoutError missing
HttpErrorFor_ByCode(error) ==
    IF error.code # UndefinedV
      THEN [status |-> 500, prefix |-> "Internal error"]
    ELSE IF InstanceOf(error, "OpenAI.AuthenticationError")
         \/ InstanceOf(error, "OpenAI.PermissionDeniedError")
      THEN [status |-> 403, prefix |-> "Authentication failed"]
    ELSE IF InstanceOf(error, "OpenAI.NotFoundError")
      THEN [status |-> 404, prefix |-> "Model not found"]
    ELSE IF InstanceOf(error, "OpenAI.RateLimitError")
      THEN [status |-> 429, prefix |-> "Rate limit exceeded"]
    ELSE IF InstanceOf(error, "OpenAI.BadRequestError")
      THEN [status |-> 400, prefix |-> "Bad request"]
    ELSE IF InstanceOf(error, "OpenAI.InternalServerError")
      THEN [status |-> 502, prefix |-> "Upstream server error"]
    ELSE IF InstanceOf(error, "OpenAI.UnprocessableEntityError")
      THEN [status |-> 422, prefix |-> "Invalid request data"]
    ELSE [status |-> 500, prefix |-> "Internal error"]

\* the if / else-if chain of the handler's catch block: [status, prefix]
HttpErrorFor(error) ==
    IF InstanceOf(error, "OpenAI.AuthenticationError")
         \/ InstanceOf(error, "OpenAI.PermissionDeniedError")
      THEN [status |-> 403, prefix |-> "Authentication failed"]
    ELSE IF InstanceOf(error, "OpenAI.NotFoundError")
      THEN [status |-> 404, prefix |-> "Model not found"]
    ELSE IF InstanceOf(error, "OpenAI.RateLimitError")
      THEN [status |-> 429, prefix |-> "Rate limit exceeded"]
    ELSE IF InstanceOf(error, "OpenAI.BadRequestError")
      THEN [status |-> 400, prefix |-> "Bad request"]
    ELSE IF InstanceOf(error, "OpenAI.APIConnectionTimeoutError")
      THEN [status |-> 408, prefix |-> "Request timeout"]
    ELSE IF InstanceOf(error, "OpenAI.InternalServerError")
      THEN [status |-> 502, prefix |-> "Upstream server error"]
    ELSE IF InstanceOf(error, "OpenAI.UnprocessableEntityError")
      THEN [status |-> 422, prefix |-> "Invalid request data"]
    ELSE [status |-> 500, prefix |-> "Internal error"]

----------------------------------------------------------------------------
(* API key resolution *)

Chars == {" ", "k"}

RECURSIVE trimStart(_)
trimStart(s) == IF s # <<>> /\ Head(s) = " " THEN trimStart(Tail(s)) ELSE s

RECURSIVE trimEnd(_)
trimEnd(s) ==
    IF s # <<>> /\ s[Len(s)] = " " THEN trimEnd(SubSeq(s, 1, Len(s) - 1)) ELSE s

\* String.prototype.trim
trim(s) == trimEnd(trimStart(s))

\* getEnv(name, defaultValue = undefined) for a variable whose value is value
getEnv(value) ==
    IF IsSome(value) /\ Get(value) # <<>> /\ trim(Get(value)) # <<>>
    THEN Some(trim(Get(value)))
    ELSE None

\* mutant: the environment consulted before the request
resolveApiKey_EnvFirst(requestApiKey, envValue) ==
    LET envApiKey == getEnv(envValue)
    IN  IF IsSome(envApiKey) THEN envApiKey
        ELSE IF IsSome(requestApiKey) /\ Get(requestApiKey) # <<>>
                /\ trim(Get(requestApiKey)) # <<>>
        THEN Some(trim(Get(requestApiKey)))
        ELSE None

resolveApiKey_Untrimmed(requestApiKey, envValue) ==
    IF IsSome(requestApiKey) /\ Get(requestApiKey) # <<>>
    THEN requestApiKey
    ELSE getEnv(envValue)

\* resolveApiKey(requestApiKey), with process.env.FIREWORKS_API_KEY = envValue;
\* None is the null it returns
resolveApiKey(requestApiKey, envValue) ==
    IF IsSome(requestApiKey) /\ Get(requestApiKey) # <<>> /\ trim(Get(requestApiKey)) # <<>>
    THEN Some(trim(Get(requestApiKey)))
    ELSE LET envApiKey == getEnv(envValue)
         IN  IF IsSome(envApiKey) THEN envApiKey ELSE None

----------------------------------------------------------------------------
(* Request schema *)

\* keys of the first member of messageSchema
MessageKeys ==
    {"role", "content", "name", "tool_call_id", "tool_calls", "function_call",
     "reasoning_content", "control_plane_step", "weight"}

\* keys of the second member (role 'tool')
ToolMessageKeys == {"role", "content", "tool_call_id", "name"}

\* z.object strips the keys it does not declare
StripTo(message, keys) == [k \in (DOMAIN message \cap keys) |-> message[k]]

\* messageSchema: the union tries its members in order; Some(parsed) on
\* success, None when neither member accepts the message
messageSchema(message) ==
    IF "role" \in DOMAIN message /\ message["role"] \in {"system", "user", "assistant"}
    THEN Some(StripTo(message, MessageKeys))
    ELSE IF /\ "role" \in DOMAIN message /\ message["role"] = "tool"
            /\ "content" \in DOMAIN message /\ message["content"] # NullV
            /\ "tool_call_id" \in DOMAIN message /\ message["tool_call_id"] # NullV
    THEN Some(StripTo(message, ToolMessageKeys))
    ELSE None

\* initRequestSchema.safeParse(body) for a body that is a JSON object:
\* metadata is required, messages / tools / api_key are optional and nullable
\* (None), every message must satisfy messageSchema
safeParse(body) ==
    IF /\ IsSome(body.metadata)
       /\ IsSome(body.messages) =>
            \A i \in 1..Len(Get(body.messages)) : IsSome(messageSchema(Get(body.messages)[i]))
    THEN [success |-> TRUE,
          data |-> [metadata |-> [rollout_id |-> Get(body.metadata)],
                    messages |-> IF IsSome(body.messages)
                                 THEN Some([i \in 1..Len(Get(body.messages)) |->
                                              Get(messageSchema(Get(body.messages)[i]))])
                                 ELSE None,
                    tools |-> body.tools,
                    api_key |-> body.api_key]]
    ELSE [success |-> FALSE, data |-> None]

----------------------------------------------------------------------------
(* Message sanitization and tools *)

allowedMessageFields ==
    {"role", "content", "name", "tool_call_id", "tool_calls", "function_call"}

sanitize_KeepAll(message) == Returned(message)

\* the callback of sanitizedMessages = messages.map(...): copy the allowed,
\* non-null entries, throw when the copy has no truthy role
sanitize(message) ==
    LET kept == {k \in DOMAIN message :
                    k \in allowedMessageFields /\ message[k] \notin {UndefinedV, NullV}}
        sanitized == [k \in kept |-> message[k]]
    IN  IF "role" \notin kept \/ ~Truthy(sanitized["role"])
        THEN Threw(ErrorObject("Error", UndefinedV, "Message role is required"))
        ELSE Returned(sanitized)

\* sanitizedMessages: Array.map stops at the first callback that throws
sanitizedMessages(messages) ==
    IF \E i \in 1..Len(messages) : sanitize(messages[i]).threw
    THEN Threw((sanitize(messages[CHOOSE i \in 1..Len(messages) :
                    /\ sanitize(messages[i]).threw
                    /\ \A j \in 1..(i - 1) : ~sanitize(messages[j]).threw])).value)
    ELSE Returned([i \in 1..Len(messages) |-> sanitize(messages[i]).value])

\* completionParams.tools = initRequest.tools.map(tool => ... tool.function.name ...):
\* a tool without a function property makes the callback throw a TypeError
mapTools(tools) ==
    IF ~IsSome(tools) \/ Len(Get(tools)) = 0 THEN Returned(None)
    ELSE IF \E i \in 1..Len(Get(tools)) : Get(tools)[i] = "no_function"
    THEN Threw(ErrorObject("Error", UndefinedV, "Cannot read properties of undefined"))
    ELSE Returned(tools)

----------------------------------------------------------------------------
(* Trace logging *)

\* process.env.FW_TRACING_GATEWAY_BASE_URL || 'https://tracing.fireworks.ai'
Gateway == "https://tracing.fireworks.ai"

\* how a fetch() of a log URL ends: a response with that status, or a rejection
FetchResults == {"200", "500", "404", "network_error"}

\* template string `Rollout ${rolloutId} ...`: undefined prints as "undefined"
IdText(rid) == IF IsSome(rid) THEN Get(rid) ELSE UndefinedV

\* rolloutId && ...: undefined and '' are falsy
HasRolloutId(rid) == IsSome(rid) /\ Get(rid) # ""

\* logToFireworks(rolloutId, message, status, apiKey) up to its await fetch:
\* the payload and the one POST to `${url}/logs`
logToFireworks(rid, message, status, key) ==
    [via |-> "logToFireworks", level |-> "INFO", message |-> message,
     status |-> Some(status),
     posts |-> << [url |-> <<Gateway, "/logs">>,
                   auth |-> Some(key),
                   payload |-> [message |-> message,
                                tags |-> << <<"rollout_id", rid>> >>,
                                status |-> Some(status)]] >>,
     first |-> "pending", second |-> "none"]

\* FireworksTransport.getRolloutId(info)
getRolloutId(infoRolloutId, envRolloutId) ==
    IF Truthy(infoRolloutId) THEN Some(infoRolloutId)
    ELSE IF IsSome(envRolloutId) /\ Truthy(Get(envRolloutId)) THEN envRolloutId
    ELSE None

\* FireworksTransport.getStatusInfo(info)
getStatusInfo(status) ==
    IF ~IsSome(status) THEN None
    ELSE Some([code |-> Get(status).code, message |-> Get(status).message,
               details |-> Get(status).details])

\* FireworksTransport.buildPayload(info, rolloutId)
buildPayload(message, status, rid) ==
    [message |-> message, tags |-> << <<"rollout_id", rid>> >>,
     status |-> getStatusInfo(status)]

\* headers of the transport's POSTs: Authorization only when
\* process.env.FIREWORKS_API_KEY is a non-empty string
transportAuth(envKey) == IF IsSome(envKey) /\ Get(envKey) # <<>> THEN envKey ELSE None

\* logger.info / logger.error of the child logger made by
\* createRolloutLogger(rolloutId): winston hands the record to
\* FireworksTransport.log, which starts sendToFireworks(info) without awaiting
\* it; sendToFireworks returns at once when no rollout id is found and
\* otherwise POSTs the payload to `${baseUrl}/logs`
winstonLog(level, message, status, infoRolloutId, e) ==
    LET rid == getRolloutId(infoRolloutId, e.EP_ROLLOUT_ID)
    IN  [via |-> "winston", level |-> level, message |-> message, status |-> status,
         posts |-> IF IsSome(rid)
                   THEN << [url |-> <<Gateway, "/logs">>,
                            auth |-> transportAuth(e.FIREWORKS_API_KEY),
                            payload |-> buildPayload(message, status, Get(rid))] >>
                   ELSE <<>>,
         first |-> IF IsSome(rid) THEN "pending" ELSE "skipped",
         second |-> "none"]

fallbackOn_AnyFailure(result) == result \in {"404", "500"}

\* sendToFireworks: if (response.status === 404) retry on /v1/logs
fallbackOn(result) == result = "404"

settles_Rethrow(result) == IF result = "network_error" THEN "rejected" ELSE "resolved"

\* how the promise of logToFireworks settles for a given end of its fetch:
\* the whole body is inside try / catch, so it always resolves
settles(result) == "resolved"

----------------------------------------------------------------------------
(* Requests *)

Variants == {"init", "logger"}

Methods == {"OPTIONS", "GET", "POST", "PUT"}

\* JSON messages a request may carry
mUser == [role |-> "user", content |-> "hi"]

mAssistant ==
    [role |-> "assistant", content |-> NullV, reasoning_content |-> "think",
     weight |-> "1", tool_calls |-> "calls", custom |-> "x"]

mTool == [role |-> "tool", content |-> "out", tool_call_id |-> "t1", weight |-> "1"]

mRobot == [role |-> "robot", content |-> "x"]

SampleMessages == {mAssistant, mTool, mRobot}

MessageLists == SeqsUpTo(SampleMessages, MaxMsgs)

\* a JSON body; parseable = FALSE is a body whose JSON does not parse
JsonBody(metadata, messages, api_key, tools) ==
    [parseable |-> TRUE, metadata |-> metadata, messages |-> messages,
     api_key |-> api_key, tools |-> tools]

BaseBody == JsonBody(Some("r1"), Some(<<mUser>>), Some(<<"k">>), None)

MalformedBody == [BaseBody EXCEPT !.parseable = FALSE]

Env(key, rid) == [FIREWORKS_API_KEY |-> key, EP_ROLLOUT_ID |-> rid]

BaseEnv == Env(None, None)

\* the requests and environments the model runs: each family varies the
\* inputs of one part of the handler around BaseBody / BaseEnv
Scenarios ==
    \* method dispatch and the body parser
    {[req |-> [method |-> m, body |-> b], env |-> BaseEnv] :
        m \in Methods, b \in {BaseBody, MalformedBody}}
    \* the three gates, in every combination
    \cup {[req |-> [method |-> "POST", body |-> JsonBody(md, ms, k, None)],
           env |-> Env(ek, None)] :
            md \in {None, Some("r1")},
            ms \in {None, Some(<<>>), Some(<<mRobot>>), Some(<<mUser>>)},
            k \in {None, Some(<<"k">>)},
            ek \in {None, Some(<<"k", "k">>)}}
    \* messages
    \cup {[req |-> [method |-> "POST", body |-> [BaseBody EXCEPT !.messages = Some(ms)]],
           env |-> BaseEnv] : ms \in MessageLists}
    \* API keys
    \cup {[req |-> [method |-> "POST", body |-> [BaseBody EXCEPT !.api_key = k]],
           env |-> Env(ek, None)] :
            k \in {None, Some(<<>>), Some(<<" ">>), Some(<<" ", "k">>)},
            ek \in {None, Some(<<>>), Some(<<"k", " ">>)}}
    \* tools
    \cup {[req |-> [method |-> "POST", body |-> [BaseBody EXCEPT !.tools = Some(ts)]],
           env |-> BaseEnv] : ts \in {<<>>, <<"function">>, <<"function", "no_function">>}}
    \* rollout ids, the empty string included (z.string() accepts it)
    \cup {[req |-> [method |-> "POST", body |-> [BaseBody EXCEPT !.metadata = Some(id)]],
           env |-> Env(None, er)] :
            id \in {"", "r1"}, er \in {None, Some("r9")}}

\* what the awaited chat.completions.create can reject with: the SDK's error
\* classes, Node network errors (with a code) and plain Errors
ProviderErrors ==
    {ErrorObject(t, UndefinedV, "boom") : t \in OpenAIErrorTypes}
        \cup {ErrorObject("OpenAI.RateLimitError", "ETIMEDOUT", "boom"),
              ErrorObject("Error", "ECONNRESET", "boom"),
              ErrorObject("Error", "ECONNREFUSED", "boom"),
              ErrorObject("Error", UndefinedV, "boom"),
              ErrorObject("Error", UndefinedV, "")}

\* The full range of provider errors is run against the base request; the
\* other requests, which vary what happens before the call, see one error.
ProviderErrorsFor(r) ==
    IF r.body = BaseBody THEN ProviderErrors
    ELSE {ErrorObject("OpenAI.RateLimitError", UndefinedV, "boom")}

\* accessing req.body of a request whose JSON does not parse throws
BodyParseError == ErrorObject("Error", UndefinedV, "Invalid JSON")

----------------------------------------------------------------------------
(* Responses *)

CorsHeaders ==
    [AllowOrigin |-> "*", AllowMethods |-> "POST, GET, OPTIONS",
     AllowHeaders |-> "Content-Type, Authorization"]

\* res.status(status).json(body) with the headers set so far
Response(status, body, hdrs) == [status |-> status, body |-> body, headers |-> hdrs]

\* a JSON body; a property whose value is undefined is left out (None)
Body(status, error, rid, details) ==
    [status |-> status, error |-> error, rollout_id |-> rid, details |-> details]

CompletedBody(rid) == Body(Some("completed"), None, rid, None)

\* mutant: the catch block's response sent without the headers set before
ErrorResponse_NoHeaders(error, rid, hdrs) ==
    Response(HttpErrorFor(error).status,
             Body(None, Some(<<HttpErrorFor(error).prefix, error.message>>), rid, None),
             None)

\* the response of the catch block for error
ErrorResponse(error, rid, hdrs) ==
    Response(HttpErrorFor(error).status,
             Body(None, Some(<<HttpErrorFor(error).prefix, error.message>>), rid, None),
             hdrs)

----------------------------------------------------------------------------
(* The handler *)

\* mutant: every line handed to the child logger carries a RUNNING status
Breadcrumb_Running(level, message, rid, e) ==
    IF variant = "logger"
    THEN <<winstonLog(level, message, Some(Status(RUNNING, "Rollout is running")), rid, e)>>
    ELSE <<>>

\* the records the child logger is handed, variant "logger" only: api/init.ts
\* writes these lines to the console
Breadcrumb(level, message, rid, e) ==
    IF variant = "logger" THEN <<winstonLog(level, message, None, rid, e)>> ELSE <<>>

\* The synchronous run of a POST from the top of the try block to its first
\* await, return or throw.  next is "respond" (res...json(response)),
\* "call" (the provider call was issued) or "throw" (error reaches catch).
TryBlock(body, e, hdrs) ==
    LET start == [rolloutId |-> None, apiKey |-> None, logger |-> FALSE, logs |-> <<>>,
                  next |-> "throw", response |-> None, call |-> None, error |-> None]
    IN
    IF ~body.parseable
    THEN [start EXCEPT !.error = Some(BodyParseError)]
    ELSE
    LET parseResult == safeParse(body) IN
    IF ~parseResult.success
    THEN [start EXCEPT !.next = "respond",
            !.response = Some(Response(400,
                Body(None, Some(<<"Invalid request format">>), None, Some("issues")), hdrs))]
    ELSE
    LET initRequest == parseResult.data
        rid == initRequest.metadata.rollout_id
        parsed == [start EXCEPT !.rolloutId = Some(rid), !.logger = (variant = "logger"),
                     !.logs = Breadcrumb("info", <<"Received rollout request">>, rid, e)]
    IN
    IF ~IsSome(initRequest.messages) \/ Len(Get(initRequest.messages)) = 0
    THEN [parsed EXCEPT !.next = "respond",
            !.logs = @ \o Breadcrumb("error", <<"messages is required and cannot be empty">>,
                                     rid, e),
            !.response = Some(Response(400,
                Body(None, Some(<<"messages is required and cannot be empty">>),
                     Some(rid), None), hdrs))]
    ELSE
    LET key == resolveApiKey(initRequest.api_key, e.FIREWORKS_API_KEY)
        keyed == [parsed EXCEPT !.apiKey = key]
    IN
    IF ~IsSome(key)
    THEN [keyed EXCEPT !.next = "respond",
            !.logs = @ \o Breadcrumb("error", <<"API key not provided">>, rid, e),
            !.response = Some(Response(401,
                Body(None, Some(<<"API key not provided">>), Some(rid), None), hdrs))]
    ELSE
    LET sending == [keyed EXCEPT
                      !.logs = @ \o Breadcrumb("info", <<"Sending completion request">>, rid, e)]
        messages == sanitizedMessages(Get(initRequest.messages))
    IN
    IF messages.threw
    THEN [sending EXCEPT !.error = Some(messages.value)]
    ELSE
    LET tools == mapTools(initRequest.tools) IN
    IF tools.threw
    THEN [sending EXCEPT !.error = Some(tools.value)]
    ELSE [sending EXCEPT !.next = "call",
            !.logs = @ \o Breadcrumb("info", <<"DEBUG">>, rid, e),
            !.call = Some([apiKey |-> Get(key), messages |-> messages.value,
                           tools |-> tools.value, stream |-> FALSE])]

\* The catch block for error, entered with the handler's locals rid, key, lg,
\* the log records curLogs and the response headers hdrs: map the error, log the failure, respond.
\*   api/init.ts : logs (and awaits the log) only if (rolloutId && apiKey)
\*   logger      : calls logger.error on the logger local, which is null when
\*                 the error was thrown before createRolloutLogger
\* An exception thrown inside the catch block rejects the handler's promise.
CatchBlock(error, rid, key, lg, curLogs, hdrs) ==
    LET mapped == mapOpenAIErrorToStatus(error)
        message == <<"Rollout", IdText(rid), "failed:", error.message>>
    IN
    /\ caught' = Some(error)
    /\ IF mapped.threw
       THEN /\ pc' = "crashed"
            /\ logs' = curLogs
            /\ UNCHANGED responses
       ELSE IF variant = "init"
       THEN IF HasRolloutId(rid) /\ IsSome(key)
            THEN /\ pc' = "awaitLog"
                 /\ logs' = Append(curLogs,
                                   logToFireworks(Get(rid), message, mapped.value, Get(key)))
                 /\ UNCHANGED responses
            ELSE /\ pc' = "done"
                 /\ logs' = curLogs
                 /\ responses' = Append(responses, ErrorResponse(error, rid, hdrs))
       ELSE IF ~lg
            THEN /\ pc' = "crashed"
                 /\ logs' = curLogs
                 /\ UNCHANGED responses
            ELSE /\ pc' = "done"
                 /\ logs' = Append(curLogs,
                                   winstonLog("error", message, Some(mapped.value),
                                              Get(rid), env))
                 /\ responses' = Append(responses, ErrorResponse(error, rid, hdrs))

\* mutant: the health check missing, a GET is answered 405
HandleRequest_NoHealthCheck ==
    /\ pc = "start"
    /\ headers' = CorsHeaders
    /\ UNCHANGED <<variant, req, env, fnArg, fnRes>>
    /\ IF req.method # "POST"
       THEN /\ responses' =
                 <<IF req.method = "OPTIONS"
                     THEN Response(200, Body(None, None, None, None), CorsHeaders)
                   ELSE Response(405,
                                 Body(None, Some(<<"Method", req.method, "not allowed">>),
                                      None, None),
                                 CorsHeaders)>>
            /\ pc' = "done"
            /\ UNCHANGED <<rolloutId, apiKey, logger, caught, calls, logs>>
       ELSE LET run == TryBlock(req.body, env, CorsHeaders) IN
            /\ rolloutId' = run.rolloutId
            /\ apiKey' = run.apiKey
            /\ logger' = run.logger
            /\ IF run.next = "respond"
               THEN /\ responses' = <<Get(run.response)>>
                    /\ logs' = run.logs
                    /\ pc' = "done"
                    /\ UNCHANGED <<caught, calls>>
               ELSE IF run.next = "call"
               THEN /\ calls' = <<Get(run.call)>>
                    /\ logs' = run.logs
                    /\ pc' = "awaitProvider"
                    /\ UNCHANGED <<caught, responses>>
               ELSE /\ CatchBlock(Get(run.error), run.rolloutId, run.apiKey, run.logger,
                                  run.logs, CorsHeaders)
                    /\ UNCHANGED calls

\* handler(req, res) from its first line to its first await or return
HandleRequest ==
    /\ pc = "start"
    /\ headers' = CorsHeaders
    /\ UNCHANGED <<variant, req, env, fnArg, fnRes>>
    /\ IF req.method # "POST"
       THEN /\ responses' =
                 <<IF req.method = "OPTIONS"
                     THEN Response(200, Body(None, None, None, None), CorsHeaders)
                   ELSE IF req.method = "GET"
                     THEN Response(200, Body(Some("ok"), None, None, None), CorsHeaders)
                   ELSE Response(405,
                                 Body(None, Some(<<"Method", req.method, "not allowed">>),
                                      None, None),
                                 CorsHeaders)>>
            /\ pc' = "done"
            /\ UNCHANGED <<rolloutId, apiKey, logger, caught, calls, logs>>
       ELSE LET run == TryBlock(req.body, env, CorsHeaders) IN
            /\ rolloutId' = run.rolloutId
            /\ apiKey' = run.apiKey
            /\ logger' = run.logger
            /\ IF run.next = "respond"
               THEN /\ responses' = <<Get(run.response)>>
                    /\ logs' = run.logs
                    /\ pc' = "done"
                    /\ UNCHANGED <<caught, calls>>
               ELSE IF run.next = "call"
               THEN /\ calls' = <<Get(run.call)>>
                    /\ logs' = run.logs
                    /\ pc' = "awaitProvider"
                    /\ UNCHANGED <<caught, responses>>
               ELSE /\ CatchBlock(Get(run.error), run.rolloutId, run.apiKey, run.logger,
                                  run.logs, CorsHeaders)
                    /\ UNCHANGED calls

\* the awaited chat.completions.create resolves: the rest of the try block
\*   api/init.ts : await logToFireworks(...), the response comes after it
\*   logger      : logger.info(..., { status }) and the response
ProviderResolves ==
    /\ pc = "awaitProvider"
    /\ LET message == <<"Rollout", IdText(rolloutId), "completed">> IN
       IF variant = "init"
       THEN /\ logs' = Append(logs, logToFireworks(Get(rolloutId), message, rolloutFinished,
                                                   Get(apiKey)))
            /\ pc' = "awaitLog"
            /\ UNCHANGED responses
       ELSE /\ logs' = Append(logs, winstonLog("info", message, Some(rolloutFinished),
                                               Get(rolloutId), env))
            /\ responses' = Append(responses,
                                   Response(200, CompletedBody(rolloutId), headers))
            /\ pc' = "done"
    /\ UNCHANGED <<variant, req, env, headers, rolloutId, apiKey, logger, caught, calls,
                   fnArg, fnRes>>

\* mutant: a retry policy, re-issuing the call once for a retryable error
ProviderRejects_Retry(error) ==
    /\ pc = "awaitProvider"
    /\ IF isRetryableError(error) /\ Len(calls) < 2
       THEN /\ calls' = Append(calls, calls[1])
            /\ UNCHANGED <<pc, caught, responses, logs>>
       ELSE /\ CatchBlock(error, rolloutId, apiKey, logger, logs, headers)
            /\ UNCHANGED calls
    /\ UNCHANGED <<variant, req, env, headers, rolloutId, apiKey, logger, fnArg, fnRes>>

\* the awaited chat.completions.create rejects with error
ProviderRejects(error) ==
    /\ pc = "awaitProvider"
    /\ CatchBlock(error, rolloutId, apiKey, logger, logs, headers)
    /\ UNCHANGED <<variant, req, env, headers, rolloutId, apiKey, logger, calls, fnArg, fnRes>>

\* api/init.ts: the fetch of the awaited logToFireworks ends with result; the
\* handler resumes after the await and sends the response of its branch
LogToFireworksSettles(result) ==
    /\ pc = "awaitLog"
    /\ LET n == Len(logs)
           settled == [logs EXCEPT ![n].first = result]
       IN  IF settles(result) = "resolved"
           THEN /\ logs' = settled
                /\ pc' = "done"
                /\ responses' = Append(responses,
                      IF IsSome(caught)
                      THEN ErrorResponse(Get(caught), rolloutId, headers)
                      ELSE Response(200, CompletedBody(rolloutId), headers))
                /\ UNCHANGED caught
           ELSE IF IsSome(caught)
           THEN /\ logs' = settled
                /\ pc' = "crashed"
                /\ UNCHANGED <<caught, responses>>
           ELSE CatchBlock(ErrorObject("Error", UndefinedV, "fetch failed"),
                           rolloutId, apiKey, logger, settled, headers)
    /\ UNCHANGED <<variant, req, env, headers, rolloutId, apiKey, logger, calls, fnArg, fnRes>>

\* FireworksTransport.sendToFireworks: the first fetch of record i ends with
\* result; a 404 response is followed by the POST to /v1/logs, a rejection is
\* swallowed by the catch
TransportResponse(i, result) ==
    /\ logs[i].via = "winston"
    /\ logs[i].first = "pending"
    /\ logs' = [logs EXCEPT ![i] =
          IF fallbackOn(result)
          THEN [@ EXCEPT !.first = result, !.second = "pending",
                         !.posts = Append(@, [url |-> <<Gateway, "/v1/logs">>,
                                              auth |-> logs[i].posts[1].auth,
                                              payload |-> logs[i].posts[1].payload])]
          ELSE [@ EXCEPT !.first = result]]
    /\ UNCHANGED <<variant, req, env, pc, headers, rolloutId, apiKey, logger, caught, calls,
                   responses, fnArg, fnRes>>

\* the retry fetch of record i ends; its result is not looked at
TransportRetryResponse(i, result) ==
    /\ logs[i].via = "winston"
    /\ logs[i].second = "pending"
    /\ logs' = [logs EXCEPT ![i].second = "done"]
    /\ UNCHANGED <<variant, req, env, pc, headers, rolloutId, apiKey, logger, caught, calls,
                   responses, fnArg, fnRes>>

Init ==
    /\ variant \in Variants
    /\ \E sc \in Scenarios : req = sc.req /\ env = sc.env
    /\ pc = "start"
    /\ headers = None
    /\ rolloutId = None
    /\ apiKey = None
    /\ logger = FALSE
    /\ caught = None
    /\ calls = <<>>
    /\ responses = <<>>
    /\ logs = <<>>
    /\ fnArg = None
    /\ fnRes = None

Next ==
    \/ HandleRequest
    \/ ProviderResolves
    \/ \E error \in ProviderErrorsFor(req) : ProviderRejects(error)
    \/ \E result \in FetchResults : LogToFireworksSettles(result)
    \/ \E i \in 1..Len(logs), result \in FetchResults : TransportResponse(i, result)
    \/ \E i \in 1..Len(logs), result \in FetchResults : TransportRetryResponse(i, result)

Spec == Init /\ [][Next]_vars

----------------------------------------------------------------------------
(* Specification of mapOpenAIErrorToStatus as a function of its argument *)

InitMap ==
    /\ variant = "init"
    /\ req = [method |-> "POST", body |-> BaseBody]
    /\ env = BaseEnv
    /\ pc = "pure"
    /\ headers = None
    /\ rolloutId = None
    /\ apiKey = None
    /\ logger = FALSE
    /\ caught = None
    /\ calls = <<>>
    /\ responses = <<>>
    /\ logs = <<>>
    /\ fnArg \in {Some(e) : e \in ErrorValues}
    /\ fnRes = None

ApplyMap ==
    /\ pc = "pure"
    /\ fnRes = None
    /\ fnRes' = Some(mapOpenAIErrorToStatus(Get(fnArg)))
    /\ UNCHANGED <<variant, req, env, pc, headers, rolloutId, apiKey, logger, caught, calls,
                   responses, logs, fnArg>>

NextMap == ApplyMap

SpecMap == InitMap /\ [][NextMap]_vars

----------------------------------------------------------------------------
(* Specification of resolveApiKey as a function of the request's key and of  *)
(* process.env.FIREWORKS_API_KEY                                             *)

\* an optional string of at most MaxKeyLen characters: undefined / null, or a
\* string, the empty and the white-space-only ones included
OptionalKeys == {None} \cup {Some(k) : k \in SeqsUpTo(Chars, MaxKeyLen)}

InitKey ==
    /\ variant = "init"
    /\ req = [method |-> "POST", body |-> BaseBody]
    /\ env = BaseEnv
    /\ pc = "resolveApiKey"
    /\ headers = None
    /\ rolloutId = None
    /\ apiKey = None
    /\ logger = FALSE
    /\ caught = None
    /\ calls = <<>>
    /\ responses = <<>>
    /\ logs = <<>>
    /\ fnArg \in {Some([requestApiKey |-> k, envValue |-> ek]) :
                    k \in OptionalKeys, ek \in OptionalKeys}
    /\ fnRes = None

ApplyKey ==
    /\ pc = "resolveApiKey"
    /\ fnRes = None
    /\ fnRes' = Some(resolveApiKey(Get(fnArg).requestApiKey, Get(fnArg).envValue))
    /\ UNCHANGED <<variant, req, env, pc, headers, rolloutId, apiKey, logger, caught, calls,
                   responses, logs, fnArg>>

NextKey == ApplyKey

SpecKey == InitKey /\ [][NextKey]_vars

----------------------------------------------------------------------------
(* Specification of isRetryableError as a function of its argument *)

\* the values isRetryableError is applied to: those of mapOpenAIErrorToStatus
\* and the Eval Protocol errors
RetryValues ==
    ErrorValues \cup {newEvalProtocolError(cls, Some(m)) :
                        cls \in EvalProtocolErrorClasses, m \in {"", "boom"}}

InitRetry ==
    /\ variant = "init"
    /\ req = [method |-> "POST", body |-> BaseBody]
    /\ env = BaseEnv
    /\ pc = "isRetryableError"
    /\ headers = None
    /\ rolloutId = None
    /\ apiKey = None
    /\ logger = FALSE
    /\ caught = None
    /\ calls = <<>>
    /\ responses = <<>>
    /\ logs = <<>>
    /\ fnArg \in {Some(e) : e \in RetryValues}
    /\ fnRes = None

\* the call isRetryableError(error): for null and undefined the instanceof
\* tests are false and reading error.code throws a TypeError
ApplyRetry ==
    /\ pc = "isRetryableError"
    /\ fnRes = None
    /\ fnRes' = Some(IF IsNullish(Get(fnArg)) THEN Threw(NullDereference)
                     ELSE Returned(isRetryableError(Get(fnArg))))
    /\ UNCHANGED <<variant, req, env, pc, headers, rolloutId, apiKey, logger, caught, calls,
                   responses, logs, fnArg>>

NextRetry == ApplyRetry

SpecRetry == InitRetry /\ [][NextRetry]_vars

----------------------------------------------------------------------------
(* Specification of exceptionForStatusCode as a function of its arguments *)

\* the message argument: left out, empty, or a text
MessageArgs == {None, Some(""), Some("boom"), Some("quota exceeded")}

InitException ==
    /\ variant = "init"
    /\ req = [method |-> "POST", body |-> BaseBody]
    /\ env = BaseEnv
    /\ pc = "exceptionForStatusCode"
    /\ headers = None
    /\ rolloutId = None
    /\ apiKey = None
    /\ logger = FALSE
    /\ caught = None
    /\ calls = <<>>
    /\ responses = <<>>
    /\ logs = <<>>
    /\ fnArg \in {Some([code |-> c, message |-> m]) : c \in StatusCode, m \in MessageArgs}
    /\ fnRes = None

ApplyException ==
    /\ pc = "exceptionForStatusCode"
    /\ fnRes = None
    /\ fnRes' = Some(exceptionForStatusCode(Get(fnArg).code, Get(fnArg).message))
    /\ UNCHANGED <<variant, req, env, pc, headers, rolloutId, apiKey, logger, caught, calls,
                   responses, logs, fnArg>>

NextException == ApplyException

SpecException == InitException /\ [][NextException]_vars

----------------------------------------------------------------------------
(* Specification of Status.toJSON and Status.fromJSON *)

\* details arrays: empty, the one built from extra info, and a longer one
DetailsValues ==
    {<<>>, buildDetailsWithExtraInfo(Some("extra")),
     buildDetailsWithExtraInfo(Some("extra")) \o buildDetailsWithExtraInfo(Some("more"))}

\* the Status objects serialized: every code, with and without message and
\* details
StatusValues ==
    {StatusWithDetails(c, m, Some(d)) :
        c \in StatusCode, m \in {"", "Rollout finished"}, d \in DetailsValues}

InitJSON ==
    /\ variant = "init"
    /\ req = [method |-> "POST", body |-> BaseBody]
    /\ env = BaseEnv
    /\ pc = "toJSON"
    /\ headers = None
    /\ rolloutId = None
    /\ apiKey = None
    /\ logger = FALSE
    /\ caught = None
    /\ calls = <<>>
    /\ responses = <<>>
    /\ logs = <<>>
    /\ fnArg \in {Some(st) : st \in StatusValues}
    /\ fnRes = None

\* json = s.toJSON()
ApplyToJSON ==
    /\ pc = "toJSON"
    /\ pc' = "fromJSON"
    /\ fnRes' = Some([json |-> toJSON(Get(fnArg)), back |-> None])
    /\ UNCHANGED <<variant, req, env, headers, rolloutId, apiKey, logger, caught, calls,
                   responses, logs, fnArg>>

\* Status.fromJSON(json)
ApplyFromJSON ==
    /\ pc = "fromJSON"
    /\ pc' = "roundTripDone"
    /\ fnRes' = Some([Get(fnRes) EXCEPT !.back = Some(fromJSON(Get(fnRes).json))])
    /\ UNCHANGED <<variant, req, env, headers, rolloutId, apiKey, logger, caught, calls,
                   responses, logs, fnArg>>

NextJSON == ApplyToJSON \/ ApplyFromJSON

SpecJSON == InitJSON /\ [][NextJSON]_vars

----------------------------------------------------------------------------
(* Claims *)

\* record i carries a status (rollout completed / rollout failed)
StatusRecord(i) == IsSome(logs[i].status)

\* the first POST of record i ended in a failure
LogFailed(i) == logs[i].first \in {"500", "404", "network_error"}

\* C1: on every request that emits a status-bearing trace log the response is
\* sent without waiting for the log POST: while the POST of such a record is
\* still in flight the response has already been sent.
C1_ResponseNotBlockedByLog ==
    \A i \in 1..Len(logs) :
        (StatusRecord(i) /\ logs[i].first = "pending") => Len(responses) = 1

\* C2: a failed trace-log POST is tolerated silently: whatever way a log POST
\* failed, the handler did not crash, the error it caught (if any) is not the
\* logging failure, and the response it sent is the one of its branch: 200
\* 'completed' after a successful provider call, the catch block's response
\* for the provider's or the handler's own error, 400 / 401 at a gate.
C2_LogFailureTolerated ==
    (\E i \in 1..Len(logs) : LogFailed(i)) =>
        /\ pc # "crashed"
        /\ IsSome(caught) => Get(caught).message # "fetch failed"
        /\ pc = "done" =>
             /\ Len(responses) = 1
             /\ IF IsSome(caught)
                THEN responses[1] = ErrorResponse(Get(caught), rolloutId, CorsHeaders)
                ELSE IF calls # <<>>
                THEN responses[1] = Response(200, CompletedBody(rolloutId), CorsHeaders)
                ELSE responses[1].status \in {400, 401}

\* C2 witness: api/init.ts answered 200 although the awaited log POST ended
\* in a network error
C2_Witness ==
    /\ variant = "init"
    /\ pc = "done"
    /\ Len(logs) = 1 /\ logs[1].first = "network_error"
    /\ Len(responses) = 1 /\ responses[1].status = 200

\* C3: every invocation ends with exactly one response sent, never zero and
\* never two, also when the error occurred before the logger or the API key
\* was set.
C3_ExactlyOneResponse ==
    /\ Len(responses) <= 1
    /\ pc \in {"done", "crashed"} => Len(responses) = 1

\* the body validates against initRequestSchema, stated on the raw body
BodyValid(body) ==
    /\ body.parseable
    /\ IsSome(body.metadata)
    /\ IsSome(body.messages) =>
         \A i \in 1..Len(Get(body.messages)) :
            LET m == Get(body.messages)[i] IN
            \/ m.role \in {"system", "user", "assistant"}
            \/ /\ m.role = "tool"
               /\ "content" \in DOMAIN m /\ m.content # NullV
               /\ "tool_call_id" \in DOMAIN m /\ m.tool_call_id # NullV

\* messages is present and non-empty
MessagesGiven(body) == IsSome(body.messages) /\ Get(body.messages) # <<>>

\* a string with a character that is not white space
NonBlank(o) == IsSome(o) /\ \E j \in 1..Len(Get(o)) : Get(o)[j] # " "

\* an API key is available in the request or in the environment
KeyAvailable(body, e) == NonBlank(body.api_key) \/ NonBlank(e.FIREWORKS_API_KEY)

\* C4: the completion request reaches the provider only if the three gates
\* pass, and the gates are checked in order: an invalid body is answered 400
\* with the validation issues, a valid body without messages 400 with the
\* rollout id, a valid body with messages but no API key 401 with the rollout
\* id; no rejection makes a provider call.
C4_GatesBeforeProvider ==
    LET body == req.body IN
    /\ calls # <<>> =>
         /\ req.method = "POST"
         /\ BodyValid(body) /\ MessagesGiven(body) /\ KeyAvailable(body, env)
    /\ (pc = "done" /\ req.method = "POST" /\ body.parseable) =>
         IF ~BodyValid(body)
         THEN /\ calls = <<>>
              /\ responses[1].status = 400
              /\ IsSome(responses[1].body.details)
         ELSE IF ~MessagesGiven(body)
         THEN /\ calls = <<>>
              /\ responses[1].status = 400
              /\ responses[1].body.rollout_id = body.metadata
         ELSE IF ~KeyAvailable(body, env)
         THEN /\ calls = <<>>
              /\ responses[1].status = 401
              /\ responses[1].body.rollout_id = body.metadata
         ELSE TRUE

\* C4 witness: a request with valid messages and no API key anywhere was
\* answered 401 without a provider call
C4_Witness ==
    /\ pc = "done"
    /\ BodyValid(req.body) /\ MessagesGiven(req.body) /\ ~KeyAvailable(req.body, env)
    /\ Len(responses) = 1 /\ responses[1].status = 401
    /\ calls = <<>>

\* the status code the documented table gives a thrown value: the SDK's classes
\* first, then the network codes, INTERNAL for everything else
TableCode(error) ==
    CASE error.type \in {"OpenAI.AuthenticationError", "OpenAI.PermissionDeniedError"} -> 7
      [] error.type = "OpenAI.NotFoundError" -> 5
      [] error.type = "OpenAI.RateLimitError" -> 8
      [] error.type \in {"OpenAI.BadRequestError", "OpenAI.UnprocessableEntityError"} -> 3
      [] error.type = "OpenAI.InternalServerError" -> 13
      [] error.type = "OpenAI.APIConnectionTimeoutError" -> 4
      [] error.type = "OpenAI.ConflictError" -> 6
      [] OTHER -> IF error.code \in {"ECONNRESET", "ENOTFOUND", "ETIMEDOUT"} THEN 14 ELSE 13

\* C5 (as amended): mapOpenAIErrorToStatus maps every thrown value that is
\* not null or undefined by the table, and the status message is the error's
\* message when that is a non-empty string and String(error) otherwise.
C5_TypeToCodeTable ==
    (IsSome(fnRes) /\ ~IsNullish(Get(fnArg))) =>
        LET error == Get(fnArg)
            result == Get(fnRes)
        IN  /\ ~result.threw
            /\ result.value.code = TableCode(error)
            /\ result.value.message =
                 IF error.type \in ObjectTypes /\ error.message # ""
                 THEN error.message
                 ELSE StringOf(error)

\* C5 witness: a RateLimitError that also carries a network code was mapped
C5_Witness ==
    /\ IsSome(fnRes)
    /\ Get(fnArg).type = "OpenAI.RateLimitError" /\ Get(fnArg).code = "ETIMEDOUT"
    /\ Get(fnRes).value.code = RESOURCE_EXHAUSTED

\* C5 as stated: the table, and the status message is the error's message.
C5_MessageIsErrorMessage ==
    (IsSome(fnRes) /\ Get(fnArg).type \in ObjectTypes) =>
        /\ ~Get(fnRes).threw
        /\ Get(fnRes).value.code = TableCode(Get(fnArg))
        /\ Get(fnRes).value.message = Get(fnArg).message

\* C6: for every thrown value mapOpenAIErrorToStatus returns a Status without
\* throwing, with a code among the error codes 1..16.
C6_MapsAnyThrownValue ==
    IsSome(fnRes) =>
        /\ ~Get(fnRes).threw
        /\ Get(fnRes).value.code \in 1..16

\* C7: the messages forwarded to the provider are the request's messages, as
\* many and in the same order, each with allowed keys only, no null value,
\* its role present and unchanged and every kept value unchanged.
C7_MessagesSanitized ==
    \A c \in 1..Len(calls) :
        LET sent == calls[c].messages
            given == Get(req.body.messages)
        IN  /\ Len(sent) = Len(given)
            /\ \A i \in 1..Len(sent) :
                 /\ DOMAIN sent[i] \subseteq
                      {"role", "content", "name", "tool_call_id", "tool_calls", "function_call"}
                 /\ \A k \in DOMAIN sent[i] :
                      sent[i][k] # NullV /\ sent[i][k] # UndefinedV /\ sent[i][k] = given[i][k]
                 /\ "role" \in DOMAIN sent[i]
                 /\ sent[i]["role"] = given[i]["role"]
                 /\ {"reasoning_content", "control_plane_step", "weight"} \cap DOMAIN sent[i] = {}

\* C7 witness: a request whose message carries reasoning_content, weight and
\* a null content was forwarded
C7_Witness ==
    /\ Len(calls) = 1
    /\ \E i \in 1..Len(Get(req.body.messages)) :
         LET m == Get(req.body.messages)[i] IN
         /\ "reasoning_content" \in DOMAIN m /\ "weight" \in DOMAIN m
         /\ m["content"] = NullV
         /\ DOMAIN calls[1].messages[i] = {"role", "tool_calls"}

\* the first fetch of record i has ended
FirstEnded(i) == logs[i].first \in FetchResults

\* C8 (as amended): FireworksTransport sends a record with one POST to /logs
\* and repeats it to /v1/logs, with the same headers and body, exactly when
\* the first response is a 404; logToFireworks of api/init.ts sends one POST
\* and never a second one; no record causes more than two POSTs.
C8_FallbackOnlyOn404 ==
    \A i \in 1..Len(logs) :
        LET r == logs[i] IN
        /\ Len(r.posts) <= 2
        /\ Len(r.posts) >= 1 => r.posts[1].url = <<Gateway, "/logs">>
        /\ r.via = "logToFireworks" => Len(r.posts) = 1
        /\ (r.via = "winston" /\ FirstEnded(i)) => (Len(r.posts) = 2 <=> r.first = "404")
        /\ ~FirstEnded(i) => Len(r.posts) <= 1
        /\ Len(r.posts) = 2 =>
             /\ r.posts[2].url = <<Gateway, "/v1/logs">>
             /\ r.posts[2].auth = r.posts[1].auth
             /\ r.posts[2].payload = r.posts[1].payload

\* C8 witness: the transport got a 404 for a record and posted it again
C8_Witness ==
    \E i \in 1..Len(logs) :
        logs[i].via = "winston" /\ logs[i].first = "404" /\ Len(logs[i].posts) = 2

\* C8 as stated: for every log record, a second POST is issued if and only
\* if the first response has status 404.
C8_EveryRecordFallsBack ==
    \A i \in 1..Len(logs) :
        /\ Len(logs[i].posts) <= 2
        /\ FirstEnded(i) => (Len(logs[i].posts) = 2 <=> logs[i].first = "404")

\* C9: at most one chat-completion call is made for a request, and a failed
\* call is not made again, whether or not isRetryableError holds of the error.
C9_NoRetry ==
    /\ Len(calls) <= 1
    /\ (IsSome(caught) /\ pc \in {"awaitLog", "done"}) => Len(calls) <= 1

\* C9 witness: the request ended with a retryable provider error after one call
C9_Witness ==
    /\ pc = "done"
    /\ IsSome(caught) /\ isRetryableError(Get(caught))
    /\ Len(calls) = 1

\* C10: a 200 'completed' response carrying the request's rollout id is sent
\* only after a successful provider call, and by then a trace log record with
\* status FINISHED, message 'Rollout <id> completed' and tag 'rollout_id:<id>'
\* has been sent to the gateway.
C10_CompletedAfterFinishedLog ==
    \A n \in 1..Len(responses) :
        (responses[n].status = 200 /\ responses[n].body.status = Some("completed")) =>
            LET id == Get(req.body.metadata) IN
            /\ responses[n].body.rollout_id = Some(id)
            /\ Len(calls) = 1 /\ ~IsSome(caught)
            /\ \E i \in 1..Len(logs) :
                 /\ Len(logs[i].posts) >= 1
                 /\ logs[i].posts[1].payload.status # None
                 /\ Get(logs[i].posts[1].payload.status).code = FINISHED
                 /\ logs[i].posts[1].payload.message = <<"Rollout", id, "completed">>
                 /\ logs[i].posts[1].payload.tags = << <<"rollout_id", id>> >>

\* the HTTP status the documented table gives an error of class type
TableHttp(type) ==
    CASE type \in {"OpenAI.AuthenticationError", "OpenAI.PermissionDeniedError"} -> 403
      [] type = "OpenAI.NotFoundError" -> 404
      [] type = "OpenAI.RateLimitError" -> 429
      [] type = "OpenAI.BadRequestError" -> 400
      [] type = "OpenAI.APIConnectionTimeoutError" -> 408
      [] type = "OpenAI.InternalServerError" -> 502
      [] type = "OpenAI.UnprocessableEntityError" -> 422
      [] OTHER -> 500

C12_MethodDispatch ==
    req.method # "POST" =>
        /\ calls = <<>> /\ logs = <<>>
        /\ caught = None /\ rolloutId = None /\ apiKey = None
        /\ pc \in {"start", "done"}
        /\ pc = "done" =>
             /\ Len(responses) = 1
             /\ responses[1].status = (IF req.method \in {"OPTIONS", "GET"} THEN 200 ELSE 405)
             /\ req.method = "OPTIONS" => responses[1].body = Body(None, None, None, None)
             /\ req.method = "GET" => responses[1].body.status = Some("ok")
             /\ req.method \notin {"OPTIONS", "GET"} => IsSome(responses[1].body.error)

\* C12 witness: a GET whose body is not valid JSON got the health-check answer
C12_Witness ==
    /\ req.method = "GET" /\ ~req.body.parseable
    /\ pc = "done"
    /\ Len(responses) = 1 /\ responses[1].status = 200
    /\ responses[1].body.status = Some("ok")

\* C13: every response the handler sends, whatever its status, carries the
\* three CORS headers Access-Control-Allow-Origin '*',
\* Access-Control-Allow-Methods 'POST, GET, OPTIONS' and
\* Access-Control-Allow-Headers 'Content-Type, Authorization'.
C13_CorsOnEveryResponse ==
    \A n \in 1..Len(responses) :
        /\ responses[n].status \in {200, 400, 401, 403, 404, 405, 408, 422, 429, 500, 502}
        /\ responses[n].headers # None
        /\ responses[n].headers.AllowOrigin = "*"
        /\ responses[n].headers.AllowMethods = "POST, GET, OPTIONS"
        /\ responses[n].headers.AllowHeaders = "Content-Type, Authorization"

\* C13 witness: the 502 sent for an upstream InternalServerError carries the
\* headers
C13_Witness ==
    /\ IsSome(caught) /\ Get(caught).type = "OpenAI.InternalServerError"
    /\ Len(responses) = 1 /\ responses[1].status = 502
    /\ responses[1].headers = CorsHeaders

\* r is s without its leading and trailing white space, for an s that has a
\* character other than white space
IsTrimOf(r, s) ==
    \E i \in 1..Len(s), j \in 1..Len(s) :
        /\ i <= j /\ s[i] # " " /\ s[j] # " "
        /\ \A k \in 1..(i - 1) : s[k] = " "
        /\ \A k \in (j + 1)..Len(s) : s[k] = " "
        /\ r = SubSeq(s, i, j)

\* C14: resolveApiKey returns the request's key, trimmed, when that has a
\* character other than white space, whatever the environment holds;
\* otherwise FIREWORKS_API_KEY, trimmed, when that has such a character;
\* otherwise null.  A returned key is never empty and never starts or ends
\* with white space.
C14_ResolveApiKeyChain ==
    IsSome(fnRes) =>
        LET k == Get(fnArg).requestApiKey
            ek == Get(fnArg).envValue
            r == Get(fnRes)
        IN  /\ NonBlank(k) => (IsSome(r) /\ IsTrimOf(Get(r), Get(k)))
            /\ (~NonBlank(k) /\ NonBlank(ek)) => (IsSome(r) /\ IsTrimOf(Get(r), Get(ek)))
            /\ (~NonBlank(k) /\ ~NonBlank(ek)) => r = None
            /\ IsSome(r) =>
                 /\ Get(r) # <<>>
                 /\ Get(r)[1] # " " /\ Get(r)[Len(Get(r))] # " "

\* C14 witness: a white-space-only request key fell back to the environment's
\* key, which was returned trimmed; and a request key won over the environment
C14_Witness ==
    /\ IsSome(fnRes)
    /\ \/ /\ Get(fnArg).requestApiKey = Some(<<" ", " ">>)
          /\ Get(fnArg).envValue = Some(<<" ", "k", " ">>)
          /\ Get(fnRes) = Some(<<"k">>)
       \/ /\ Get(fnArg).requestApiKey = Some(<<"k", " ">>)
          /\ Get(fnArg).envValue = Some(<<"k", "k", "k">>)
          /\ Get(fnRes) = Some(<<"k">>)

\* the classification as documented, by class name and code
RetryableTable(error) ==
    \/ error.type \in {"OpenAI.RateLimitError", "OpenAI.InternalServerError",
                       "OpenAI.APIConnectionTimeoutError", "OpenAI.APIConnectionError"}
    \/ error.code \in {"ECONNRESET", "ENOTFOUND", "ETIMEDOUT", "ECONNREFUSED"}
    \/ error.type \in {"EvalProtocol.UnknownError", "EvalProtocol.DeadlineExceededError",
                       "EvalProtocol.NotFoundError", "EvalProtocol.PermissionDeniedError",
                       "EvalProtocol.UnavailableError", "EvalProtocol.UnauthenticatedError",
                       "EvalProtocol.ResourceExhaustedError"}

\* C15: for every error (an error object of any class, or a thrown string)
\* isRetryableError returns a boolean, true exactly for the four OpenAI
\* classes RateLimitError, InternalServerError, APIConnectionTimeoutError and
\* APIConnectionError, for the codes ECONNRESET, ENOTFOUND, ETIMEDOUT and
\* ECONNREFUSED, and for the seven Eval Protocol classes; false otherwise.
C15_RetryableClassification ==
    (IsSome(fnRes) /\ ~IsNullish(Get(fnArg))) =>
        /\ ~Get(fnRes).threw
        /\ Get(fnRes).value \in BOOLEAN
        /\ Get(fnRes).value = RetryableTable(Get(fnArg))

\* C15 witness: the Eval Protocol NotFoundError was classified retryable
C15_Witness ==
    /\ IsSome(fnRes)
    /\ Get(fnArg).type = "EvalProtocol.NotFoundError"
    /\ Get(fnRes) = Returned(TRUE)

\* C16: exceptionForStatusCode returns null exactly for the codes OK,
\* FINISHED, RUNNING and SCORE_INVALID; for every error code c in 1..16 it
\* returns an instance of the class registered for c whose statusCode is c
\* and whose message is the given message ('' when none is given).
C16_ExceptionForStatusCode ==
    IsSome(fnRes) =>
        LET c == Get(fnArg).code
            m == Get(fnArg).message
            e == Get(fnRes)
        IN  /\ e = None <=> c \in {0, 100, 101, 102}
            /\ c \in 1..16 =>
                 /\ IsSome(e)
                 /\ Get(e).type \in EvalProtocolErrorClasses
                 /\ Some(Get(e).type) = STATUS_CODE_TO_EXCEPTION(c)
                 /\ Get(e).statusCode = c
                 /\ Get(e).message = (IF m = None THEN "" ELSE Get(m))

\* C16 witness: code 14 with a message gave an UnavailableError carrying both
C16_Witness ==
    /\ IsSome(fnRes)
    /\ Get(fnArg) = [code |-> 14, message |-> Some("boom")]
    /\ IsSome(Get(fnRes))
    /\ Get(Get(fnRes)).type = "EvalProtocol.UnavailableError"
    /\ Get(Get(fnRes)).statusCode = 14 /\ Get(Get(fnRes)).message = "boom"

\* C17: for every Status s, s.toJSON() has exactly the fields code, message
\* and details, with the values of s, and Status.fromJSON(s.toJSON()) has the
\* code, message and details of s.
C17_StatusRoundTrip ==
    IsSome(fnRes) =>
        LET st == Get(fnArg)
            json == Get(fnRes).json
            back == Get(fnRes).back
        IN  /\ DOMAIN json = {"code", "message", "details"}
            /\ json.code = st.code /\ json.message = st.message /\ json.details = st.details
            /\ IsSome(back) =>
                 /\ Get(back).code = st.code
                 /\ Get(back).message = st.message
                 /\ Get(back).details = st.details

\* C17 witness: a Status with two details entries came back from the round trip
C17_Witness ==
    /\ pc = "roundTripDone"
    /\ Len(Get(fnArg).details) = 2
    /\ IsSome(Get(fnRes).back)
    /\ Get(Get(fnRes).back) = Get(fnArg)

\* record i was sent to the gateway as the failure record of error for the
\* rollout id
FailureRecord(i, id, error) ==
    /\ Len(logs[i].posts) >= 1
    /\ logs[i].posts[1].payload.status = Some(mapOpenAIErrorToStatus(error).value)
    /\ logs[i].posts[1].payload.message = <<"Rollout", id, "failed:", error.message>>

\* C18: when the response for an error thrown after the rollout id and the
\* API key were established is sent, a trace log record with status
\* mapOpenAIErrorToStatus(error) and message 'Rollout <rollout_id> failed:
\* <error message>' has been emitted; in api/init.ts an error thrown while
\* the rollout id or the API key is unset emits no trace log.
C18_FailureLogged ==
    (IsSome(caught) /\ ~mapOpenAIErrorToStatus(Get(caught)).threw) =>
        /\ (Len(responses) = 1 /\ IsSome(rolloutId) /\ IsSome(apiKey)) =>
             \E i \in 1..Len(logs) : FailureRecord(i, Get(req.body.metadata), Get(caught))
        /\ (variant = "init" /\ (~IsSome(rolloutId) \/ ~IsSome(apiKey))) => logs = <<>>

\* the records of the request that carry a status
StatusRecords == {i \in 1..Len(logs) : StatusRecord(i)}

\* C19: a request emits at most one status-bearing log record, and that
\* record agrees with the response: a FINISHED record only after a successful
\* provider call, with no error caught and a 200 response; an error-status
\* record only in the catch block, with an error response; a request rejected
\* at a gate or by the method dispatch emits none.
C19_OneStatusRecord ==
    /\ Cardinality(StatusRecords) <= 1
    /\ \A i \in StatusRecords :
         LET code == Get(logs[i].status).code IN
         IF code = 100
         THEN /\ Len(calls) = 1 /\ caught = None
              /\ Len(responses) = 1 => responses[1].status = 200
         ELSE /\ code \in 1..16
              /\ IsSome(caught)
              /\ code = mapOpenAIErrorToStatus(Get(caught)).value.code
              /\ Len(responses) = 1 => responses[1].status \in {400, 403, 404, 408, 422, 429, 500, 502}
    /\ (Len(responses) = 1 /\ caught = None /\ calls = <<>>) => StatusRecords = {}

\* C19 witness: the winston handler ended a request whose provider call was
\* rate limited with several log lines, one of them status-bearing
C19_Witness ==
    /\ variant = "logger" /\ pc = "done"
    /\ IsSome(caught) /\ Len(calls) = 1
    /\ Len(logs) > 1 /\ Cardinality(StatusRecords) = 1
    /\ \A i \in StatusRecords : Get(logs[i].status).code = 8
    /\ Len(responses) = 1 /\ responses[1].status = 429

====
